---- MODULE Spec2Model ----
(***************************************************************************)
(* Certificate-lifecycle coordinator of letsencrypt-cert-generator-fabric  *)
(* (src/resources/ChallengeCertificate.js and its older copy               *)
(* src/unnamed/part_000): the ACME HTTP-01 challenge responder, the leader *)
(* election, the change-feed subscription, the retry wrapper, the issuer   *)
(* and the 12-hour renewal scan, over one replicated ChallengeCertificate  *)
(* table.                                                                  *)
(*                                                                         *)
(* Modelling decisions                                                     *)
(*  - The table is one linearizable store shared by all nodes (replication *)
(*    lag is not modelled).  A record is a function from the attributes    *)
(*    that are present to their values, so that patch (merge) and put      *)
(*    (replace) differ as they do in the store.                            *)
(*  - Dates are whole days.  An attempt lasts minutes and a retry cycle    *)
(*    about an hour, so the clock only jumps (by ClockStep days) while no  *)
(*    attempt is running.                                                  *)
(*  - Each await of the code is a step; awaits of external calls that      *)
(*    neither read nor write the table are merged into the next step that  *)
(*    does.  Every external call may throw.                                *)
(*  - An order has one identifier, hence one authorization.                *)
(*  - Handling a change-feed event takes no time compared with the waits  *)
(*    of an attempt: the loop handles an event before any attempt or scan  *)
(*    takes its next step (Drained), and skips events that are not new     *)
(*    requests first (Quiet).  An event handled late is an event           *)
(*    delivered again (Redeliver).                                         *)
(***************************************************************************)
EXTENDS Integers, Sequences, FiniteSets, TLC

VARIABLES
  build,      \* which copy of the source is deployed, once it has shown
  up,         \* hostnames of the running nodes (worker 0 of each)
  hdb_nodes,  \* databases.system.hdb_nodes, in store order
  store,      \* tables.ChallengeCertificate: domain -> record
  now,        \* the clock, in days
  feed,       \* per node: events the subscription has not yet yielded
  tasks,      \* every launched issuance, in launch order
  scan,       \* per node: the renewal scan callback
  used,       \* how many environment events of each kind have happened
  elected,    \* per hostname: the last result of isChallengeLeader
  served,     \* the last request and response of the HTTP middleware
  sub         \* per node: the workers loaded, the subscription loops, the timers

vars == <<build, up, hdb_nodes, store, now, feed, tasks, scan, used, elected,
          served, sub>>

(*************************** bounds and constants ***************************)

Hostnames == {"n1", "n2", "n3"}
Domains == {"a.example", "b.example"}
NewDomains == {"a.example"}   \* the domains registered during a run
Builds == {"resources", "part_000"}
AnyBuild == "either"

MaxRedeliver == 1   \* events the feed delivers beyond one per write
MaxScans == 1       \* firings of the renewal timer
MaxTicks == 1       \* jumps of the clock
ClockStep == 61     \* days per jump of the clock

maxRetries == 5
delayInterval == 120000
staggerPerNode == 60000
renewalDays == 60

Null == "null"      \* the JavaScript null
None == [none |-> TRUE]

MaxWorkers == 2     \* worker threads per node

(********************************* records *********************************)

Has(r, f) == f \in DOMAIN r

\* JavaScript truthiness of a string attribute (absent, null and "" are falsy),
\* of a date attribute (a Date is truthy) and of a boolean attribute.
TruthyString(r, f) == Has(r, f) /\ r[f] # Null /\ r[f] # ""
TruthyDate(r, f) == Has(r, f)
TruthyFlag(r, f) == Has(r, f) /\ r[f] = TRUE

Merge(old, new) ==
  [f \in (DOMAIN old) \cup (DOMAIN new) |->
     IF f \in DOMAIN new THEN new[f] ELSE old[f]]

\* tables.ChallengeCertificate.patch(r): merge into the record, or create it.
Patch(s, r) ==
  [d \in (DOMAIN s) \cup {r.domain} |->
     IF d = r.domain
       THEN (IF d \in DOMAIN s THEN Merge(s[d], r) ELSE r)
       ELSE s[d]]

\* tables.ChallengeCertificate.put(r): replace the record.
Put(s, r) ==
  [d \in (DOMAIN s) \cup {r.domain} |-> IF d = r.domain THEN r ELSE s[d]]

(************************* the challenge responder *************************)

\* A request url is a sequence of pieces: the separator "/" or a piece of text
\* without one.
Slash == "/"
WellKnownPrefix == <<Slash, ".well-known", Slash>>

\* request.url.startsWith('/.well-known/')
startsWith(url, prefix) ==
  /\ Len(url) >= Len(prefix)
  /\ SubSeq(url, 1, Len(prefix)) = prefix

\* request.url.split('/')
RECURSIVE split(_, _, _)
split(url, part, parts) ==
  IF url = <<>> THEN Append(parts, part)
  ELSE IF Head(url) = Slash THEN split(Tail(url), "", Append(parts, part))
  ELSE split(Tail(url), part \o Head(url), parts)

\* The table in primary-key order, as a search walks it.
SortedDomains == <<"a.example", "b.example">>

\* tables.ChallengeCertificate.search({conditions: [challengeToken equals value]})
searchByToken(s, value) ==
  LET hit(d) == d \in DOMAIN s /\ Has(s[d], "challengeToken")
                               /\ s[d].challengeToken = value
  IN  [i \in 1..Len(SelectSeq(SortedDomains, hit)) |->
         s[SelectSeq(SortedDomains, hit)[i]]]

\* next(request)
next(url) == [forwarded |-> url]

\* A loop that would look at the first record found only.
serveHead(found, url) ==
  IF found = <<>> THEN next(url)
  ELSE IF TruthyString(Head(found), "challengeContent")
    THEN [status |-> 200, headers |-> {}, body |-> Head(found).challengeContent]
    ELSE next(url)

\* The for-await loop of the middleware over the search result.
RECURSIVE serveFirst(_, _)
serveFirst(found, url) ==
  IF found = <<>> THEN next(url)
  ELSE IF TruthyString(Head(found), "challengeContent")
    THEN [status |-> 200, headers |-> {}, body |-> Head(found).challengeContent]
    ELSE serveFirst(Tail(found), url)

\* server.http(async (request, next) => ...)
Respond(s, url) ==
  IF startsWith(url, WellKnownPrefix)
    THEN LET pathParts == split(url, "", <<>>)
         IN  IF Len(pathParts) # 4 THEN next(url)
             ELSE serveFirst(searchByToken(s, pathParts[4]), url)
    ELSE next(url)

(**************************** the leader election ***************************)

\* The for-await loop of isChallengeLeader over hdb_nodes.search().
RECURSIVE countNodes(_, _, _)
countNodes(rows, totalCount, firstNodeName) ==
  IF rows = <<>> THEN [totalCount |-> totalCount, firstNodeName |-> firstNodeName]
  ELSE countNodes(Tail(rows), totalCount + 1,
                  IF totalCount + 1 = 1 THEN Head(rows).name ELSE firstNodeName)

\* An election that would take any listed node for the leader.
isLeaderIfListed(rows, hostname) ==
  [isLeader   |-> \/ rows = <<>>
                  \/ \E i \in DOMAIN rows : rows[i].name = hostname,
   totalNodes |-> Len(rows)]

\* An election without the default for an empty enumeration.
isLeaderUnlessEmpty(rows, hostname) ==
  [isLeader   |-> IF rows = <<>> THEN FALSE ELSE rows[1].name = hostname,
   totalNodes |-> Len(rows)]

\* isChallengeLeader() on the node whose replication.hostname is hostname.
isChallengeLeader(rows, hostname) ==
  LET c == countNodes(rows, 0, Null)
  IN  [isLeader   |-> IF c.totalCount = 0 THEN TRUE
                      ELSE c.firstNodeName = hostname,
       totalNodes |-> c.totalCount]

(******************************* the workers ********************************)

\* server.workerIndex of the worker threads of a node.
Workers == 0..(MaxWorkers - 1)

\* A node none of whose workers has loaded the module yet.
NotLoaded == [loaded |-> {}, loops |-> 0, pending |-> 0, timers |-> 0]

\* A module without the workerIndex guard: every worker would subscribe and
\* set the timer.
LoadedUnguarded(node, w) ==
  [loaded  |-> node.loaded \cup {w},
   loops   |-> node.loops + 1,
   pending |-> node.pending,
   timers  |-> node.timers + 1]

\* What loading the module on worker w adds (lines 131-157): on worker 0 a
\* call of startSubscription and a setInterval.
Loaded(node, w) ==
  [loaded  |-> node.loaded \cup {w},
   loops   |-> IF w = 0 THEN node.loops + 1 ELSE node.loops,
   pending |-> node.pending,
   timers  |-> IF w = 0 THEN node.timers + 1 ELSE node.timers]

\* A node whose worker 0 has loaded the module.
Started == Loaded(NotLoaded, 0)

(****************************** the change feed *****************************)

\* Every write to the table is yielded to every subscribed node, with the
\* record as written.
Emit(f, record) ==
  [n \in Hostnames |-> IF n \in up THEN Append(f[n], [value |-> record]) ELSE f[n]]

\* event.value?.domain
eventDomain(event) ==
  IF Has(event, "value") /\ TruthyString(event.value, "domain")
    THEN event.value.domain ELSE Null

\* A filter that would not look at inProgress.
tokenAndDateUnset(event) ==
  /\ ~ TruthyString(event.value, "challengeToken")
  /\ ~ TruthyDate(event.value, "issueDate")

\* !challengeToken && !issueDate && !inProgress
isNewRequest(event) ==
  /\ ~ TruthyString(event.value, "challengeToken")
  /\ ~ TruthyDate(event.value, "issueDate")
  /\ ~ TruthyFlag(event.value, "inProgress")

\* An event the loop passes over without an await.
Skipped(event) ==
  IF eventDomain(event) = Null THEN TRUE ELSE ~ isNewRequest(event)

\* An event whose handling on node n cannot write: a skipped one, or any event
\* on a node that is not the leader.
Inert(n, event) ==
  IF Skipped(event) THEN TRUE ELSE ~ isChallengeLeader(hdb_nodes, n).isLeader

Quiet == \A n \in up : IF feed[n] = <<>> THEN TRUE ELSE ~ Inert(n, Head(feed[n]))

Drained == \A n \in up : feed[n] = <<>>

(********************************* issuances ********************************)

Terminal == {"returned", "exhausted", "threw"}
Active(t) == tasks[t].pc \notin Terminal
NoneActive == \A t \in 1..Len(tasks) : ~ Active(t)

\* What is left of a call once it has returned or thrown: its locals are gone.
Ended(task, pc) ==
  [node |-> task.node, domain |-> task.domain, renewal |-> task.renewal,
   wrapped |-> task.wrapped, sid |-> task.sid, pc |-> pc]

\* The dates of the record of d, as a call of performHttpChallenge finds them
\* when it starts.
Dates(s, d) ==
  IF d \in DOMAIN s
    THEN [f \in (DOMAIN s[d]) \cap {"issueDate", "renewalDate"} |-> s[d][f]]
    ELSE [f \in {} |-> 0]

\* performHttpChallengeWithRetry(domain, initialDelay), up to its first await.
performHttpChallengeWithRetry(node, domain, initialDelay) ==
  [node |-> node, domain |-> domain, renewal |-> FALSE, wrapped |-> TRUE,
   sid |-> 0, attempt |-> 0, delay |-> IF initialDelay > 0 THEN initialDelay ELSE 0,
   before |-> Dates(store, domain),
   pc |-> IF initialDelay > 0 THEN "stagger" ELSE "publish"]

\* performHttpChallenge(domain, true) called by scan sid, up to its first await.
performHttpChallenge(node, domain, sid) ==
  [node |-> node, domain |-> domain, renewal |-> TRUE, wrapped |-> FALSE,
   sid |-> sid, attempt |-> 0, delay |-> 0, before |-> Dates(store, domain),
   pc |-> "publish"]

\* httpChallenge.token of the order task t currently holds. Tokens of different
\* tasks differ; the orders of one task succeed each other and their tokens are
\* not told apart.
Token(t) == "tok-" \o ToString(t)
keyAuthorization(token) == token \o ".thumbprint"
ChallengeUrl(token) == <<Slash, ".well-known", Slash, "acme-challenge", Slash, token>>

\* A catch whose waits would grow by delayInterval each time.
retryLinear(task) ==
  IF task.attempt < maxRetries
    THEN [task EXCEPT !.pc = "backoff",
                      !.delay = delayInterval * (task.attempt + 1)]
    ELSE Ended(task, "exhausted")

\* A catch that would retry once more than maxRetries.
retryOnceMore(task) ==
  IF task.attempt <= maxRetries
    THEN [task EXCEPT !.pc = "backoff",
                      !.delay = delayInterval * (2 ^ task.attempt)]
    ELSE Ended(task, "exhausted")

\* The catch of the retry loop: back off and retry, or give up after the last
\* attempt.
retryOrGiveUp(task) ==
  IF task.attempt < maxRetries
    THEN [task EXCEPT !.pc = "backoff",
                      !.delay = delayInterval * (2 ^ task.attempt)]
    ELSE Ended(task, "exhausted")

\* performHttpChallenge of task t throws: into the retry loop's catch, or out
\* of the scan callback, which has none.
Throws(t) ==
  LET task == tasks[t]
  IN  IF task.wrapped
        THEN /\ tasks' = [tasks EXCEPT ![t] = retryOrGiveUp(task)]
             /\ scan' = scan
        ELSE /\ tasks' = [tasks EXCEPT ![t] = Ended(task, "threw")]
             /\ scan' = [scan EXCEPT ![task.node].pc = "rejected"]

\* performHttpChallenge of task t returns the certificate: the retry loop
\* returns, the scan goes on to its next record.
Returns(t) ==
  LET task == tasks[t]
  IN  /\ tasks' = [tasks EXCEPT ![t] = Ended(task, "returned")]
      /\ scan' = IF task.wrapped THEN scan
                 ELSE [scan EXCEPT ![task.node].pc = "next",
                                   ![task.node].due = Tail(@)]

\* The record written once the certificate is in hand (lines 234-246).
issuedRecord(domain, date) ==
  [domain |-> domain, issueDate |-> date, renewalDate |-> date + renewalDays,
   challengeToken |-> Null, challengeContent |-> Null, inProgress |-> FALSE]

\* The wait before the first attempt is over.
Stagger(t) ==
  /\ Drained
  /\ t \in 1..Len(tasks)
  /\ tasks[t].pc = "stagger"
  /\ tasks' = [tasks EXCEPT ![t].pc = "publish",
                            ![t].before = Dates(store, tasks[t].domain)]
  /\ UNCHANGED <<build, up, hdb_nodes, store, now, feed, scan, used, elected, served, sub>>

\* The wait after a failed attempt is over: the next attempt starts.
Backoff(t) ==
  /\ Drained
  /\ t \in 1..Len(tasks)
  /\ tasks[t].pc = "backoff"
  /\ tasks' = [tasks EXCEPT ![t].pc = "publish", ![t].attempt = @ + 1,
                            ![t].before = Dates(store, tasks[t].domain)]
  /\ UNCHANGED <<build, up, hdb_nodes, store, now, feed, scan, used, elected, served, sub>>

\* Lines 166-207: account, CSR, order, authorization, HTTP-01 challenge, key
\* authorization, and the patch that publishes the challenge.
Publish(t) ==
  /\ Drained
  /\ t \in 1..Len(tasks)
  /\ tasks[t].pc = "publish"
  /\ LET token == Token(t)
     IN  \/ /\ store' = Patch(store, [domain |-> tasks[t].domain,
                                      challengeToken |-> token,
                                      challengeContent |-> keyAuthorization(token)])
            /\ feed' = Emit(feed, store'[tasks[t].domain])
            /\ tasks' = [tasks EXCEPT ![t].pc = "settle"]
            /\ scan' = scan
         \/ /\ Throws(t)
            /\ UNCHANGED <<store, feed>>
  /\ UNCHANGED <<build, up, hdb_nodes, now, used, elected, served, sub>>

\* Lines 210-216: after the settle wait, completeChallenge and
\* waitForValidStatus. The authority fetches the challenge url from the
\* cluster and accepts only the key authorization of its own challenge.
Validate(t) ==
  /\ Drained
  /\ t \in 1..Len(tasks)
  /\ tasks[t].pc = "settle"
  /\ LET token == Token(t)
         answer == Respond(store, ChallengeUrl(token))
     IN  \/ /\ Has(answer, "status")
            /\ answer.status = 200
            /\ answer.body = keyAuthorization(token)
            /\ tasks' = [tasks EXCEPT ![t].pc = "valid"]
            /\ scan' = scan
         \/ Throws(t)
  /\ UNCHANGED <<build, up, hdb_nodes, store, now, feed, used, elected, served, sub>>

\* Lines 220-246: finalizeOrder, for a renewal the re-fetch of the order,
\* getCertificate, and the put of the issued record.
Issue(t) ==
  /\ Drained
  /\ t \in 1..Len(tasks)
  /\ tasks[t].pc = "valid"
  /\ \/ /\ store' = Put(store, issuedRecord(tasks[t].domain, now))
        /\ feed' = Emit(feed, store'[tasks[t].domain])
        /\ tasks' = [tasks EXCEPT ![t].pc = "install"]
        /\ scan' = scan
     \/ /\ Throws(t)
        /\ UNCHANGED <<store, feed>>
  /\ UNCHANGED <<build, up, hdb_nodes, now, used, elected, served, sub>>

\* Lines 251-261: add_certificate, then return cert.
Install(t) ==
  /\ Drained
  /\ t \in 1..Len(tasks)
  /\ tasks[t].pc = "install"
  /\ \/ Returns(t)
     \/ Throws(t)
  /\ UNCHANGED <<build, up, hdb_nodes, store, now, feed, used, elected, served, sub>>

(************************* the subscription loop ****************************)

\* One turn of the for-await loop of startSubscription on node n.
\* The event has no domain, or is not a new request: nothing happens.
SkipEvent(n) ==
  /\ n \in up
  /\ sub[n].loops > 0
  /\ feed[n] # <<>>
  /\ Skipped(Head(feed[n]))
  /\ feed' = [feed EXCEPT ![n] = Tail(@)]
  /\ UNCHANGED <<build, up, hdb_nodes, store, now, tasks, scan, used, elected, served, sub>>

\* A new request on a node that is not the leader.
LeaveToLeader(n) ==
  /\ n \in up
  /\ sub[n].loops > 0
  /\ feed[n] # <<>>
  /\ ~ Skipped(Head(feed[n]))
  /\ ~ isChallengeLeader(hdb_nodes, n).isLeader
  /\ feed' = [feed EXCEPT ![n] = Tail(@)]
  /\ UNCHANGED <<build, up, hdb_nodes, store, now, tasks, scan, used, elected, served, sub>>

\* A loop without the inner catch: the error of one event would end the loop
\* in the outer catch.
EventCrash(n) ==
  /\ Quiet
  /\ n \in up
  /\ sub[n].loops > 0
  /\ feed[n] # <<>>
  /\ ~ Inert(n, Head(feed[n]))
  /\ feed' = [feed EXCEPT ![n] = Tail(@)]
  /\ sub' = [sub EXCEPT ![n].loops = @ - 1, ![n].pending = @ + 1]
  /\ UNCHANGED <<build, up, hdb_nodes, store, now, tasks, scan, used, elected, served>>

\* A new request whose handling throws (the enumeration of hdb_nodes, or on the
\* leader the patch): caught and logged, the loop goes on.
EventError(n) ==
  /\ Quiet
  /\ n \in up
  /\ sub[n].loops > 0
  /\ feed[n] # <<>>
  /\ ~ Inert(n, Head(feed[n]))
  /\ feed' = [feed EXCEPT ![n] = Tail(@)]
  /\ UNCHANGED <<build, up, hdb_nodes, store, now, tasks, scan, used, elected, served, sub>>

\* A new request on the leader: mark the record, launch the issuance.
StartIssuance(n) ==
  /\ Quiet
  /\ n \in up
  /\ sub[n].loops > 0
  /\ feed[n] # <<>>
  /\ ~ Skipped(Head(feed[n]))
  /\ LET domain == eventDomain(Head(feed[n]))
         leader == isChallengeLeader(hdb_nodes, n)
         initialDelay == (leader.totalNodes - 1) * staggerPerNode
     IN  /\ leader.isLeader
         /\ store' = Patch(store, [domain |-> domain, inProgress |-> TRUE])
         /\ feed' = Emit([feed EXCEPT ![n] = Tail(@)], store'[domain])
         /\ tasks' = Append(tasks, performHttpChallengeWithRetry(n, domain, initialDelay))
  /\ UNCHANGED <<build, up, hdb_nodes, now, scan, used, elected, served, sub>>

startSubscription(n) ==
  \/ SkipEvent(n)
  \/ LeaveToLeader(n)
  \/ EventError(n)
  \/ StartIssuance(n)

(***************************** the renewal scan *****************************)

IdleScan == [pc |-> "idle", due |-> <<>>, found |-> <<>>, sid |-> 0]


\* search({conditions: [renewalDate less_than new Date()]}): the domains found.
dueDomains(s, date) ==
  {d \in DOMAIN s : Has(s[d], "renewalDate") /\ s[d].renewalDate < date}

\* The orders in which a search may yield a set of domains.
Orderings(S) ==
  {q \in [1..Cardinality(S) -> S] : \A i, j \in DOMAIN q : i # j => q[i] # q[j]}

\* The timer fires on node n: the callback starts its search.
ScanStart(n) ==
  /\ Drained
  /\ n \in up
  /\ sub[n].timers > 0
  /\ scan[n].pc \in {"idle", "done", "rejected"}
  /\ used.scans < MaxScans
  /\ used' = [used EXCEPT !.scans = @ + 1]
  /\ \E order \in Orderings(dueDomains(store, now)) :
       scan' = [scan EXCEPT ![n] = [pc |-> "next", due |-> order, found |-> order,
                                    sid |-> used.scans + 1]]
  /\ UNCHANGED <<build, up, hdb_nodes, store, now, feed, tasks, elected, served, sub>>

\* The search is exhausted: the callback returns.
ScanDone(n) ==
  /\ Drained
  /\ n \in up
  /\ scan[n].pc = "next"
  /\ scan[n].due = <<>>
  /\ scan' = [scan EXCEPT ![n].pc = "done"]
  /\ UNCHANGED <<build, up, hdb_nodes, store, now, feed, tasks, used, elected, served, sub>>

\* The next due record on a node that is not the leader: on to the next.
ScanNotLeader(n) ==
  /\ Drained
  /\ n \in up
  /\ scan[n].pc = "next"
  /\ scan[n].due # <<>>
  /\ ~ isChallengeLeader(hdb_nodes, n).isLeader
  /\ scan' = [scan EXCEPT ![n].due = Tail(@)]
  /\ UNCHANGED <<build, up, hdb_nodes, store, now, feed, tasks, used, elected, served, sub>>

\* The two copies of the source differ in one line of the scan: resources
\* line 145 patches challengeDomain.domain, part_000 line 100 reads `domain`,
\* which no scope of the callback declares: a ReferenceError before the patch
\* is called. Which copy is deployed shows only there, and is fixed from then on.
markThrows(b) == b = "part_000"

\* A scan that would take a failed enumeration for leadership: it marks the
\* record and renews it.
ScanAssumesLeader(n) ==
  /\ Drained
  /\ n \in up
  /\ scan[n].pc = "next"
  /\ scan[n].due # <<>>
  /\ LET domain == Head(scan[n].due)
     IN  /\ store' = Patch(store, [domain |-> domain, inProgress |-> TRUE])
         /\ feed' = Emit(feed, store'[domain])
         /\ tasks' = Append(tasks, performHttpChallenge(n, domain, scan[n].sid))
  /\ scan' = [scan EXCEPT ![n].pc = "awaiting"]
  /\ UNCHANGED <<build, up, hdb_nodes, now, used, elected, served, sub>>

\* The next due record makes the callback throw: the enumeration of hdb_nodes
\* fails, or on the leader the patch fails or cannot be built. The callback
\* has no catch: the scan is over.
ScanRejects(n) ==
  /\ Drained
  /\ n \in up
  /\ scan[n].pc = "next"
  /\ scan[n].due # <<>>
  /\ \/ build' = build
     \/ /\ isChallengeLeader(hdb_nodes, n).isLeader
        /\ build = AnyBuild
        /\ \E b \in Builds : markThrows(b) /\ build' = b
  /\ scan' = [scan EXCEPT ![n].pc = "rejected"]
  /\ UNCHANGED <<up, hdb_nodes, store, now, feed, tasks, used, elected, served, sub>>

\* The next due record on the leader: mark it, and await its renewal.
ScanRenew(n) ==
  /\ Drained
  /\ n \in up
  /\ scan[n].pc = "next"
  /\ scan[n].due # <<>>
  /\ isChallengeLeader(hdb_nodes, n).isLeader
  /\ \E b \in Builds :
       /\ build \in {AnyBuild, b}
       /\ ~ markThrows(b)
       /\ build' = b
  /\ LET domain == Head(scan[n].due)
     IN  /\ store' = Patch(store, [domain |-> domain, inProgress |-> TRUE])
         /\ feed' = Emit(feed, store'[domain])
         /\ tasks' = Append(tasks, performHttpChallenge(n, domain, scan[n].sid))
  /\ scan' = [scan EXCEPT ![n].pc = "awaiting"]
  /\ UNCHANGED <<up, hdb_nodes, now, used, elected, served, sub>>

(****************************** the environment *****************************)

\* A caller registers a domain: a record with only its domain.
Register(d) ==
  /\ Drained
  /\ NoneActive
  /\ d \in NewDomains \ DOMAIN store
  /\ store' = Put(store, [domain |-> d])
  /\ feed' = Emit(feed, store'[d])
  /\ UNCHANGED <<build, up, hdb_nodes, now, tasks, scan, used, elected, served, sub>>

\* The feed yields the registration of d to the leader n once more (on any
\* other node the event is inert).
Redeliver(n, d) ==
  /\ Drained
  /\ \A t \in 1..Len(tasks) : Active(t) => ~ tasks[t].wrapped
  /\ n \in up
  /\ isChallengeLeader(hdb_nodes, n).isLeader
  /\ d \in NewDomains \cap DOMAIN store
  /\ used.redeliver < MaxRedeliver
  /\ used' = [used EXCEPT !.redeliver = @ + 1]
  /\ feed' = [feed EXCEPT ![n] = Append(@, [value |-> [domain |-> d]])]
  /\ UNCHANGED <<build, up, hdb_nodes, store, now, tasks, scan, elected, served, sub>>

\* Time passes while nothing is running.
Tick ==
  /\ Drained
  /\ NoneActive
  /\ \A n \in up : scan[n].pc \in {"idle", "done", "rejected"}
  /\ used.ticks < MaxTicks
  /\ used' = [used EXCEPT !.ticks = @ + 1]
  /\ now' = now + ClockStep
  /\ UNCHANGED <<build, up, hdb_nodes, store, feed, tasks, scan, elected, served, sub>>

(***************************** the specification ****************************)

Row(name) == [name |-> name]

\* The deployments: one node that sees no hdb_nodes, a two-node cluster, and
\* a two-node cluster whose first node is down.
Clusters ==
  { [up |-> {"n1"}, hdb_nodes |-> <<>>],
    [up |-> {"n1", "n2"}, hdb_nodes |-> <<Row("n1"), Row("n2")>>],
    [up |-> {"n2"}, hdb_nodes |-> <<Row("n1"), Row("n2")>>] }

\* The table when the process starts: empty, or holding the certificates an
\* earlier run issued on day 0.
Stores ==
  { [d \in {} |-> None],
    [d \in Domains |-> issuedRecord(d, 0)] }

Init ==
  /\ build = AnyBuild
  /\ \E c \in Clusters : up = c.up /\ hdb_nodes = c.hdb_nodes
  /\ store \in Stores
  /\ now = 0
  /\ feed = [n \in Hostnames |-> <<>>]
  /\ tasks = <<>>
  /\ scan = [n \in Hostnames |-> IdleScan]
  /\ used = [redeliver |-> 0, ticks |-> 0, scans |-> 0]
  /\ elected = [n \in Hostnames |-> None]
  /\ served = None
  /\ sub = [n \in Hostnames |-> IF n \in up THEN Started ELSE NotLoaded]

Next ==
  \/ \E d \in Domains : Register(d)
  \/ \E n \in Hostnames, d \in Domains : Redeliver(n, d)
  \/ Tick
  \/ \E n \in Hostnames : startSubscription(n)
  \/ \E n \in Hostnames : ScanStart(n)
  \/ \E n \in Hostnames : ScanDone(n)
  \/ \E n \in Hostnames : ScanNotLeader(n)
  \/ \E n \in Hostnames : ScanRejects(n)
  \/ \E n \in Hostnames : ScanRenew(n)
  \/ \E t \in 1..Len(tasks) : Stagger(t)
  \/ \E t \in 1..Len(tasks) : Publish(t)
  \/ \E t \in 1..Len(tasks) : Validate(t)
  \/ \E t \in 1..Len(tasks) : Issue(t)
  \/ \E t \in 1..Len(tasks) : Install(t)
  \/ \E t \in 1..Len(tasks) : Backoff(t)

Spec == Init /\ [][Next]_vars

(********************* new requests without renewals ***********************)

\* The subscription, the retry loop and the issuer while no renewal is due.
SubscriptionNext ==
  \/ \E d \in Domains : Register(d)
  \/ \E n \in Hostnames, d \in Domains : Redeliver(n, d)
  \/ \E n \in Hostnames : startSubscription(n)
  \/ \E t \in 1..Len(tasks) : Stagger(t)
  \/ \E t \in 1..Len(tasks) : Publish(t)
  \/ \E t \in 1..Len(tasks) : Validate(t)
  \/ \E t \in 1..Len(tasks) : Issue(t)
  \/ \E t \in 1..Len(tasks) : Install(t)
  \/ \E t \in 1..Len(tasks) : Backoff(t)

SubscriptionSpec == Init /\ [][SubscriptionNext]_vars

(****************** both triggers, every event delivered once ***************)

\* The subscription and the renewal scan when the feed repeats no event.
TriggerNext ==
  \/ \E d \in Domains : Register(d)
  \/ Tick
  \/ \E n \in Hostnames : startSubscription(n)
  \/ \E n \in Hostnames : ScanStart(n)
  \/ \E n \in Hostnames : ScanDone(n)
  \/ \E n \in Hostnames : ScanNotLeader(n)
  \/ \E n \in Hostnames : ScanRejects(n)
  \/ \E n \in Hostnames : ScanRenew(n)
  \/ \E t \in 1..Len(tasks) : Stagger(t)
  \/ \E t \in 1..Len(tasks) : Publish(t)
  \/ \E t \in 1..Len(tasks) : Validate(t)
  \/ \E t \in 1..Len(tasks) : Issue(t)
  \/ \E t \in 1..Len(tasks) : Install(t)
  \/ \E t \in 1..Len(tasks) : Backoff(t)

TriggerSpec == Init /\ [][TriggerNext]_vars

(********************* the leader election on its own **********************)

\* The enumerations hdb_nodes.search() can yield: the rows of a table keyed by
\* name, in any order.
Enumerations ==
  UNION {{[i \in DOMAIN q |-> Row(q[i])] : q \in Orderings(S)} : S \in SUBSET Hostnames}

LeaderInit ==
  /\ build = AnyBuild
  /\ up \in (SUBSET Hostnames) \ {{}}
  /\ hdb_nodes \in Enumerations
  /\ store = [d \in {} |-> None]
  /\ now = 0
  /\ feed = [n \in Hostnames |-> <<>>]
  /\ tasks = <<>>
  /\ scan = [n \in Hostnames |-> IdleScan]
  /\ used = [redeliver |-> 0, ticks |-> 0, scans |-> 0]
  /\ elected = [n \in Hostnames |-> None]
  /\ served = None
  /\ sub = [n \in Hostnames |-> IF n \in up THEN Started ELSE NotLoaded]

\* A node whose replication.hostname is h calls isChallengeLeader().
Elect(h) ==
  /\ h \in up
  /\ elected' = [elected EXCEPT ![h] = isChallengeLeader(hdb_nodes, h)]
  /\ UNCHANGED <<build, up, hdb_nodes, store, now, feed, tasks, scan, used, served, sub>>

LeaderNext == \E h \in Hostnames : Elect(h)

LeaderSpec == LeaderInit /\ [][LeaderNext]_vars

(******************** the challenge responder on its own ********************)

ChallengeTokens == {"abc123", "def456"}
ChallengeContents == {Null, "", "xyz", "uvw"}

\* A record as the responder may find it: with no challenge, or with a
\* challenge token and any content.
ChallengeRecords(d) ==
  {[domain |-> d], [domain |-> d, challengeToken |-> Null, challengeContent |-> Null]}
  \cup {[domain |-> d, challengeToken |-> k, challengeContent |-> c] :
           k \in ChallengeTokens, c \in ChallengeContents}

ResponderStores ==
  UNION {{s \in [S -> UNION {ChallengeRecords(d) : d \in S}] :
            \A d \in S : s[d].domain = d} : S \in SUBSET Domains}

\* The urls requested.
Urls ==
  {ChallengeUrl(k) : k \in ChallengeTokens \cup {"ghi789"}}
  \cup { <<Slash, ".well-known", Slash, "acme-challenge", Slash, "abc123", Slash, "more">>,
          <<Slash, ".well-known", Slash, "acme-challenge">>,
          <<Slash, ".well-known", Slash, "pki-validation", Slash, "abc123">>,
          <<Slash, "acme-challenge", Slash, "abc123">>,
          <<Slash>> }

ResponderInit ==
  /\ build = AnyBuild
  /\ up = {"n1"}
  /\ hdb_nodes = <<>>
  /\ store \in ResponderStores
  /\ now = 0
  /\ feed = [n \in Hostnames |-> <<>>]
  /\ tasks = <<>>
  /\ scan = [n \in Hostnames |-> IdleScan]
  /\ used = [redeliver |-> 0, ticks |-> 0, scans |-> 0]
  /\ elected = [n \in Hostnames |-> None]
  /\ served = None
  /\ sub = [n \in Hostnames |-> IF n \in up THEN Started ELSE NotLoaded]

\* A request for url reaches the middleware.
HttpRequest(url) ==
  /\ served' = [url |-> url, response |-> Respond(store, url)]
  /\ UNCHANGED <<build, up, hdb_nodes, store, now, feed, tasks, scan, used, elected, sub>>

ResponderNext == \E url \in Urls : HttpRequest(url)

ResponderSpec == ResponderInit /\ [][ResponderNext]_vars

(************** the workers and the subscription on their own **************)

WorkerInit ==
  /\ build = AnyBuild
  /\ up \in (SUBSET Hostnames) \ {{}}
  /\ hdb_nodes = <<>>
  /\ store = [d \in {} |-> None]
  /\ now = 0
  /\ feed = [n \in Hostnames |-> <<>>]
  /\ tasks = <<>>
  /\ scan = [n \in Hostnames |-> IdleScan]
  /\ used = [redeliver |-> 0, ticks |-> 0, scans |-> 0]
  /\ elected = [n \in Hostnames |-> None]
  /\ served = None
  /\ sub = [n \in Hostnames |-> NotLoaded]

\* Worker w of node n loads the module (lines 131-157).
Load(n, w) ==
  /\ n \in up
  /\ w \notin sub[n].loaded
  /\ sub' = [sub EXCEPT ![n] = Loaded(@, w)]
  /\ UNCHANGED <<build, up, hdb_nodes, store, now, feed, tasks, scan, used, elected,
                 served>>

\* subscribe() or the iteration of the feed throws on node n: the outer catch
\* (lines 121-125) logs and sets the timer that calls startSubscription.
FeedError(n) ==
  /\ n \in up
  /\ sub[n].loops > 0
  /\ sub' = [sub EXCEPT ![n].loops = @ - 1, ![n].pending = @ + 1]
  /\ UNCHANGED <<build, up, hdb_nodes, store, now, feed, tasks, scan, used, elected,
                 served>>

\* The feed of node n ends: the for-await loop (line 92) is left without an
\* error, and startSubscription returns.
FeedClose(n) ==
  /\ n \in up
  /\ sub[n].loops > 0
  /\ sub' = [sub EXCEPT ![n].loops = @ - 1]
  /\ UNCHANGED <<build, up, hdb_nodes, store, now, feed, tasks, scan, used, elected,
                 served>>

\* The 5 s timer of line 124 fires on node n: startSubscription runs again.
Restart(n) ==
  /\ n \in up
  /\ sub[n].pending > 0
  /\ sub' = [sub EXCEPT ![n].pending = @ - 1, ![n].loops = @ + 1]
  /\ UNCHANGED <<build, up, hdb_nodes, store, now, feed, tasks, scan, used, elected,
                 served>>

WorkerNext ==
  \/ \E n \in Hostnames, w \in Workers : Load(n, w)
  \/ \E n \in Hostnames : FeedError(n)
  \/ \E n \in Hostnames : FeedClose(n)
  \/ \E n \in Hostnames : Restart(n)

\* Timers that are set fire, and workers that start load the module.
WorkerSpec ==
  /\ WorkerInit
  /\ [][WorkerNext]_vars
  /\ \A n \in Hostnames : WF_vars(Restart(n))
  /\ \A n \in Hostnames : WF_vars(Load(n, 0))

(********************************* the claims *******************************)

TaskIds == 1..Len(tasks)

\* Task t is inside a call of performHttpChallenge.
InFlight(t) == tasks[t].pc \in {"publish", "settle", "valid", "install"}

InFlightFor(d) == {t \in TaskIds : InFlight(t) /\ tasks[t].domain = d}

\* C1: in every reachable state, for every domain, at most one call of
\* performHttpChallenge is in flight, over all nodes and both triggers.
C1_AtMostOneInFlight == \A d \in Domains : Cardinality(InFlightFor(d)) <= 1

\* The cluster C3 speaks of: at least one node, and every node enumerates the
\* identities of exactly the nodes of the cluster.
SameIdentities ==
  /\ hdb_nodes # <<>>
  /\ {hdb_nodes[i].name : i \in DOMAIN hdb_nodes} = up

Leaders == {h \in up : isChallengeLeader(hdb_nodes, h).isLeader}

\* C3: in a cluster of N >= 1 nodes that all enumerate the same N identities,
\* every answer of isChallengeLeader has isLeader = TRUE exactly on the node
\* named by the first enumerated identity, and exactly one node is leader.
C3_ExactlyOneLeader ==
  IF SameIdentities
    THEN /\ Leaders = {hdb_nodes[1].name}
         /\ Cardinality(Leaders) = 1
         /\ \A h \in up :
              IF Has(elected[h], "isLeader")
                THEN elected[h].isLeader = (h = hdb_nodes[1].name)
                ELSE TRUE
    ELSE TRUE

\* C3's case: three nodes that enumerate each other have all been asked, one
\* answered leader and the others not.
C3_Witness ==
  /\ SameIdentities
  /\ Cardinality(up) = 3
  /\ \A h \in up : Has(elected[h], "isLeader")
  /\ Cardinality({h \in up : elected[h].isLeader}) = 1

\* The url is /.well-known/acme-challenge/<token>.
IsChallengeUrl(url) ==
  /\ Len(url) = 6
  /\ url[6] # Slash
  /\ url = ChallengeUrl(url[6])

\* The records that hold the token with a non-empty content.
Holders(s, token) ==
  {d \in DOMAIN s : /\ Has(s[d], "challengeToken")
                     /\ s[d].challengeToken = token
                     /\ Has(s[d], "challengeContent")
                     /\ s[d].challengeContent \notin {Null, ""}}

\* What C4 allows as the answer to a request for url over the table s.
Answered(s, url, response) ==
  IF Holders(s, url[6]) # {}
    THEN /\ Has(response, "status")
         /\ response.status = 200
         /\ \E d \in Holders(s, url[6]) : response.body = s[d].challengeContent
    ELSE response = next(url)

\* C4: a request for /.well-known/acme-challenge/<token> is answered 200 with
\* a record's challengeContent if and only if a record holds <token> with a
\* non-empty content, in every other case with what the next handler returns
\* for the unchanged request; the responder writes nothing to the store.
C4_Responder ==
  [][\A url \in Urls :
       HttpRequest(url) =>
         /\ store' = store
         /\ IF IsChallengeUrl(url) THEN Answered(store, url, served'.response)
                                   ELSE TRUE]_vars

\* C4's cases: a token held by two records of which the first found has an
\* empty content is answered 200, and a token held with empty content only
\* is passed on.
C4_Witness ==
  /\ Has(served, "url")
  /\ IsChallengeUrl(served.url)
  /\ DOMAIN store = Domains
  /\ Has(store["a.example"], "challengeToken")
  /\ store["a.example"].challengeToken = served.url[6]
  /\ store["a.example"].challengeContent = ""
  /\ Holders(store, served.url[6]) = {"b.example"}
  /\ served.response.status = 200

\* C5: a retry loop makes at most maxRetries + 1 calls of performHttpChallenge
\* (attempt counts the calls before the current one); a returned call ends
\* the loop at once; only a failure of the last call exhausts it, with no
\* wait after it; an ended loop makes no call and no wait any more.
C5_RetryBounded ==
  [][\A t \in TaskIds :
       IF tasks[t].wrapped
         THEN IF tasks[t].pc \in Terminal
                THEN tasks'[t] = tasks[t]
                ELSE /\ tasks[t].attempt <= maxRetries
                     /\ (tasks[t].pc = "backoff") => (tasks[t].attempt < maxRetries)
                     /\ IF tasks'[t].pc \in Terminal
                          THEN /\ (tasks'[t].pc = "returned") => (tasks[t].pc = "install")
                               /\ (tasks'[t].pc = "exhausted")
                                    => (tasks[t].attempt = maxRetries /\ InFlight(t))
                               /\ tasks'[t].pc # "threw"
                          ELSE /\ tasks'[t].attempt <= maxRetries
                               /\ tasks'[t].attempt \in
                                    IF tasks[t].pc = "backoff" /\ tasks'[t].pc # "backoff"
                                      THEN {tasks[t].attempt + 1}
                                      ELSE {tasks[t].attempt}
                               /\ (tasks'[t].pc = "backoff")
                                    => /\ tasks'[t].attempt < maxRetries
                                       /\ tasks[t].pc = "backoff" \/ InFlight(t)
         ELSE TRUE]_vars

\* C5's cases: one retry loop gave up after its calls failed, another returned.
C5_Witness ==
  /\ \E t \in TaskIds : tasks[t].wrapped /\ tasks[t].pc = "exhausted"
  /\ \E t \in TaskIds : tasks[t].wrapped /\ tasks[t].pc = "returned"

\* Task t's call of performHttpChallenge returns in this step.
ReturnsNow(t) == tasks[t].pc = "install" /\ tasks'[t].pc = "returned"

\* Task t's call of performHttpChallenge writes the issued record in this step.
WritesIssued(t) == tasks[t].pc = "valid" /\ tasks'[t].pc = "install"

\* C2: when performHttpChallenge returns, the record of its domain has null
\* challenge fields, inProgress = FALSE, and renewalDate = issueDate + 60
\* days; and the write that set them set all five in one step, with the time
\* of the write as issueDate.
C2_IssuedAtReturn ==
  [][\A t \in TaskIds :
       /\ IF ReturnsNow(t)
            THEN LET r == store'[tasks[t].domain]
                 IN  /\ Has(r, "issueDate")
                     /\ r = issuedRecord(tasks[t].domain, r.issueDate)
            ELSE TRUE
       /\ IF WritesIssued(t)
            THEN store'[tasks[t].domain] = issuedRecord(tasks[t].domain, now)
            ELSE TRUE]_vars

\* The event at the head of node n's feed has a domain and none of
\* challengeToken, issueDate, inProgress set.
NewDomainEvent(n) ==
  IF n \in up /\ feed[n] # <<>>
    THEN LET e == Head(feed[n])
         IN  IF Has(e, "value") /\ Has(e.value, "domain")
               THEN /\ e.value.domain \notin {Null, ""}
                    /\ ~ Has(e.value, "challengeToken") \/ e.value.challengeToken \in {Null, ""}
                    /\ ~ Has(e.value, "issueDate")
                    /\ ~ Has(e.value, "inProgress") \/ e.value.inProgress = FALSE
               ELSE FALSE
    ELSE FALSE

\* This step appends an issuance of domain d launched on node n.
Launches(n, d) ==
  /\ Len(tasks') = Len(tasks) + 1
  /\ SubSeq(tasks', 1, Len(tasks)) = tasks
  /\ tasks'[Len(tasks')].node = n
  /\ tasks'[Len(tasks')].domain = d
  /\ tasks'[Len(tasks')].wrapped

\* The leader n is handed a new-domain event once more, after a first
\* processing launched the issuance and set inProgress on the record, which
\* no issuance has cleared since.
Duplicate(n) ==
  IF NewDomainEvent(n)
    THEN LET d == Head(feed[n]).value.domain
         IN  /\ isChallengeLeader(hdb_nodes, n).isLeader
             /\ \E t \in TaskIds : tasks[t].wrapped /\ tasks[t].domain = d
             /\ d \in DOMAIN store
             /\ TruthyFlag(store[d], "inProgress")
             /\ ~ Has(store[d], "issueDate")
    ELSE FALSE

\* C6: the leader's loop processing a new-domain event again, after the first
\* processing has set inProgress on the record, launches nothing and writes
\* nothing.
C6_DuplicateIdempotent ==
  [][\A n \in Hostnames :
       IF Duplicate(n)
         THEN startSubscription(n) => (tasks' = tasks /\ store' = store)
         ELSE TRUE]_vars

\* C7: while an issuance or renewal is underway, from its launch until its
\* last call has returned or thrown, the record of its domain has
\* inProgress = TRUE.
C7_InProgressWhileUnderway ==
  \A t \in TaskIds :
    IF Active(t)
      THEN /\ tasks[t].domain \in DOMAIN store
           /\ TruthyFlag(store[tasks[t].domain], "inProgress")
      ELSE TRUE

\* Task t's call of performHttpChallenge throws in this step.
ThrowsNow(t) == InFlight(t) /\ tasks'[t].pc \in {"backoff", "exhausted", "threw"}

\* C8: when a call of performHttpChallenge ends with an error, and so when
\* the retry loop gives up, the record of its domain has inProgress = TRUE
\* and the issueDate and renewalDate it had when the call started.
C8_ErrorLeavesRecord ==
  [][\A t \in TaskIds :
       IF ThrowsNow(t)
         THEN /\ tasks[t].domain \in DOMAIN store'
              /\ TruthyFlag(store'[tasks[t].domain], "inProgress")
              /\ Dates(store', tasks[t].domain) = tasks[t].before
         ELSE TRUE]_vars

\* The scan of node n is over, other than by a failure of the store before
\* any of its renewals threw.
ScanOver(n) ==
  /\ n \in up
  /\ scan[n].sid # 0
  /\ \/ scan[n].pc = "done"
     \/ /\ scan[n].pc = "rejected"
        /\ \/ \E t \in TaskIds : tasks[t].sid = scan[n].sid /\ tasks[t].pc = "threw"
           \/ build = "part_000"

\* The renewals scan sid has called for domain d.
RenewalsOf(sid, d) ==
  {t \in TaskIds : tasks[t].sid = sid /\ tasks[t].domain = d /\ tasks[t].renewal}

\* C9: a scan on the leader marks and attempts every record it found due,
\* whatever became of its other attempts; a scan on another node launches
\* nothing.
C9_ScanAttemptsEveryDue ==
  \A n \in Hostnames :
    IF ScanOver(n)
      THEN IF isChallengeLeader(hdb_nodes, n).isLeader
             THEN \A i \in DOMAIN scan[n].found :
                    RenewalsOf(scan[n].sid, scan[n].found[i]) # {}
             ELSE \A t \in TaskIds : tasks[t].sid # scan[n].sid
      ELSE TRUE

\* What a turn of the loop on node n may do: mark the record of the event's
\* domain and launch its issuance, or nothing.
MarksAndLaunches(n) ==
  LET d == Head(feed[n]).value.domain
  IN  /\ store' = Patch(store, [domain |-> d, inProgress |-> TRUE])
      /\ Launches(n, d)

\* C10 as stated: a turn of the loop launches an issuance if and only if the
\* event is a new-domain event and the node is leader, then after writing
\* inProgress = TRUE; every other turn writes nothing and launches nothing.
C10_LaunchIff ==
  [][\A n \in Hostnames :
       IF n \in up /\ feed[n] # <<>>
         THEN startSubscription(n) =>
                IF NewDomainEvent(n) /\ isChallengeLeader(hdb_nodes, n).isLeader
                  THEN MarksAndLaunches(n)
                  ELSE tasks' = tasks /\ store' = store
         ELSE TRUE]_vars

\* C10: a turn of the loop launches an issuance only if the event is a
\* new-domain event and the node is leader, and then it has written
\* inProgress = TRUE to the record of that domain; a turn that launches
\* nothing (the event is another one, the node is not leader, or the
\* enumeration or the write threw) writes nothing.
C10_LaunchOnlyIf ==
  [][\A n \in Hostnames :
       IF n \in up /\ feed[n] # <<>>
         THEN startSubscription(n) =>
                IF tasks' # tasks
                  THEN /\ NewDomainEvent(n)
                       /\ isChallengeLeader(hdb_nodes, n).isLeader
                       /\ MarksAndLaunches(n)
                  ELSE store' = store
         ELSE TRUE]_vars

\* C10's case: in a two-node cluster the leader has marked the record and
\* launched the issuance, and every node has consumed the events of that
\* write without writing.
C10_Witness ==
  /\ Len(hdb_nodes) = 2
  /\ Cardinality(up) = 2
  /\ Drained
  /\ Len(tasks) = 1
  /\ tasks[1].pc = "stagger"
  /\ store = [d \in {tasks[1].domain} |-> [domain |-> d, inProgress |-> TRUE]]

\* C11: for every enumeration of N identities and every own hostname h,
\* isChallengeLeader answers totalNodes = N and isLeader = (N = 0 or the
\* first enumerated name is h), and writes neither hdb_nodes nor the table.
C11_LeaderFunction ==
  [][\A h \in Hostnames :
       Elect(h) =>
         /\ hdb_nodes' = hdb_nodes
         /\ store' = store
         /\ elected'[h].totalNodes = Len(hdb_nodes)
         /\ elected'[h].isLeader =
              IF Len(hdb_nodes) = 0 THEN TRUE ELSE hdb_nodes[1].name = h]_vars

\* C11's case: with an empty enumeration, two running nodes have both been
\* answered leader of a cluster of 0 nodes.
C11_Witness ==
  /\ hdb_nodes = <<>>
  /\ Cardinality(up) >= 2
  /\ \A h \in up : /\ Has(elected[h], "isLeader")
                    /\ elected[h].isLeader
                    /\ elected[h].totalNodes = 0

\* The waits the retry policy states, in milliseconds: before attempt k + 1
\* (k = 0..4) the k+1-th of them.
DelaySequence == <<120000, 240000, 480000, 960000, 1920000>>

\* C12: when attempt k (k = 0..4) of a retry loop fails, the loop waits on a
\* timer of 120000 * 2^k ms set at that failure, and attempt k + 1 starts
\* only when that timer has fired.
C12_BackoffDelays ==
  [][\A t \in TaskIds :
       IF tasks[t].wrapped /\ Active(t) /\ tasks'[t].pc \notin Terminal
         THEN /\ (ThrowsNow(t) /\ tasks'[t].pc = "backoff")
                 => /\ tasks[t].attempt \in 0..4
                    /\ tasks'[t].delay = DelaySequence[tasks[t].attempt + 1]
                    /\ tasks'[t].delay = 120000 * (2 ^ tasks[t].attempt)
              /\ (tasks'[t].attempt # tasks[t].attempt)
                 => /\ tasks[t].pc = "backoff"
                    /\ tasks'[t].attempt = tasks[t].attempt + 1
                    /\ tasks[t].delay = DelaySequence[tasks'[t].attempt]
              /\ (tasks[t].pc = "backoff" /\ tasks'[t].pc = "backoff")
                 => tasks'[t].delay = tasks[t].delay
         ELSE TRUE]_vars

\* C12's case: the fifth attempt (k = 4) has failed and the loop waits
\* 1920000 ms.
C12_Witness ==
  \E t \in TaskIds :
    /\ tasks[t].pc = "backoff"
    /\ tasks[t].attempt = 4
    /\ tasks[t].delay = 1920000

\* The callback of node n is suspended on the await of an issuance that is
\* still running.
WaitsForIssuance(n) ==
  /\ scan[n].pc = "awaiting"
  /\ \E t \in TaskIds : Active(t) /\ tasks[t].node = n /\ tasks[t].sid = scan[n].sid

\* C13: no trigger ever waits for an issuance to finish: while an issuance a
\* renewal scan launched is in flight, the scan is free to go on to its next
\* due record.
C13_NeverWaits == \A n \in Hostnames : ~ WaitsForIssuance(n)

\* The subscription of node n has been started and no loop is running.
Stopped(n) == 0 \in sub[n].loaded /\ sub[n].loops = 0

\* C14: whenever the subscription of a node has stopped, because the feed
\* raised an error or because it closed, a new subscription loop is
\* eventually running on that node.
C14_Resubscribes == \A n \in Hostnames : Stopped(n) ~> (sub[n].loops > 0)

\* C15: an error raised while one event is processed is caught inside the
\* loop: the loop neither ends nor is restarted, nothing is written or
\* launched, and the later events of the feed are still there to be
\* processed, in order.
C15_EventErrorIsolated ==
  [][\A n \in Hostnames :
       EventError(n) =>
         /\ sub' = sub
         /\ sub'[n].loops > 0
         /\ feed'[n] = Tail(feed[n])
         /\ \A m \in Hostnames \ {n} : feed'[m] = feed[m]
         /\ store' = store
         /\ tasks' = tasks]_vars

\* C15's case: the event of a registration failed and was dropped; the same
\* loop then processed the next event for the domain and launched its
\* issuance.
C15_Witness ==
  /\ used.redeliver = 1
  /\ Len(tasks) = 1
  /\ tasks[1].pc \in {"stagger", "publish"}
  /\ tasks[1].attempt = 0
  /\ store = [d \in {tasks[1].domain} |-> [domain |-> d, inProgress |-> TRUE]]

\* Task t's call notifies the authority in this step: the settle wait is over
\* and completeChallenge is called.
NotifiesNow(t) == tasks[t].pc = "settle" /\ tasks'[t].pc # "settle"

\* The record of task t's domain holds the token and the key authorization
\* of t's challenge, and the responder serves them.
Published(t) ==
  LET d == tasks[t].domain
      answer == Respond(store, ChallengeUrl(Token(t)))
  IN  /\ d \in DOMAIN store
      /\ Has(store[d], "challengeToken")
      /\ store[d].challengeToken = Token(t)
      /\ Has(store[d], "challengeContent")
      /\ store[d].challengeContent = keyAuthorization(Token(t))
      /\ Has(answer, "status")
      /\ answer.status = 200
      /\ answer.body = keyAuthorization(Token(t))

\* C16: at the moment an attempt notifies the authority that its challenge is
\* ready, the record of its domain holds that challenge's token and key
\* authorization, and a request for the token is answered 200 with that
\* content.
C16_PublishedAtNotify ==
  [][\A t \in TaskIds : IF NotifiesNow(t) THEN Published(t) ELSE TRUE]_vars

\* C17: a request whose path is not /.well-known/acme-challenge/<token>
\* (another directory under /.well-known/, or another number of segments) is
\* answered with what the next handler returns for it, whatever the table
\* holds.
C17_OnlyChallengePath ==
  [][\A url \in Urls :
       HttpRequest(url) =>
         IF IsChallengeUrl(url) THEN TRUE ELSE served'.response = next(url)]_vars

\* C18: when the enumeration of the nodes fails, the error reaches the
\* caller, which writes no inProgress and launches no issuance for the event
\* or the record it is handling: the change-feed loop drops the event, the
\* scan callback is rejected.
C18_EnumerationFailure ==
  [][\A n \in Hostnames :
       /\ EventError(n) => (store' = store /\ tasks' = tasks)
       /\ ScanRejects(n) =>
            /\ store' = store
            /\ tasks' = tasks
            /\ scan'[n].pc = "rejected"
            /\ scan'[n].due = scan[n].due]_vars

\* C18's case: the enumeration failed in a scan that had found records due;
\* the callback was rejected, no record is marked and nothing was launched.
C18_Witness ==
  /\ tasks = <<>>
  /\ build = AnyBuild
  /\ \E n \in up : scan[n].pc = "rejected" /\ Len(scan[n].due) = 2
  /\ \A d \in DOMAIN store : ~ TruthyFlag(store[d], "inProgress")

\* C19: on every node only worker 0 runs the subscription and the renewal
\* timer: whatever other workers have loaded, nothing runs before worker 0
\* has loaded, and from then on there is at most one subscription loop,
\* running or about to restart, and exactly one renewal timer.
C19_OneSchedulerPerNode ==
  \A n \in Hostnames :
    IF 0 \in sub[n].loaded
      THEN /\ sub[n].loops <= 1
           /\ sub[n].loops + sub[n].pending <= 1
           /\ sub[n].timers = 1
      ELSE /\ sub[n].loops = 0
           /\ sub[n].pending = 0
           /\ sub[n].timers = 0

\* C19's case: every worker of a node has loaded the module, the
\* subscription has crashed and its restart is pending.
C19_Witness ==
  \E n \in up :
    /\ sub[n].loaded = Workers
    /\ sub[n].loops = 0
    /\ sub[n].pending = 1
    /\ sub[n].timers = 1

\* The value has at least one of challengeToken, issueDate, inProgress set.
HasSetField(value) ==
  \/ Has(value, "challengeToken") /\ value.challengeToken \notin {Null, ""}
  \/ Has(value, "issueDate")
  \/ Has(value, "inProgress") /\ value.inProgress = TRUE

\* This step is a write of a caller, or a delivery of the feed, not a write
\* of this code.
ExternalStep ==
  \/ \E d \in Domains : Register(d)
  \/ \E n \in Hostnames, d \in Domains : Redeliver(n, d)

\* This step appends an event to the feed of node n.
AppendsEvent(n) ==
  /\ feed'[n] # <<>>
  /\ feed'[n] # feed[n]
  /\ IF feed[n] = <<>> THEN TRUE ELSE feed'[n] # Tail(feed[n])

\* The issuances launched by the change-feed trigger for domain d, after
\* this step.
LaunchedFor(d) == {t \in 1..Len(tasks') : tasks'[t].wrapped /\ tasks'[t].domain = d}

\* C20: every event produced by a write of this code (the inProgress patch,
\* the challenge patch, the final put) carries a value with at least one of
\* challengeToken, issueDate, inProgress set; and an externally created
\* record has at most one issuance launched for it by the trigger.
C20_OwnWritesSkipped ==
  [][/\ \A d \in Domains : Cardinality(LaunchedFor(d)) <= 1
     /\ IF ExternalStep THEN TRUE
        ELSE \A n \in up :
               IF AppendsEvent(n)
                 THEN HasSetField(feed'[n][Len(feed'[n])].value)
                 ELSE TRUE]_vars

\* performHttpChallengeWithRetry has failed all its attempts for domain d.
Exhausted(d) ==
  \E t \in TaskIds :
    tasks[t].wrapped /\ tasks[t].domain = d /\ tasks[t].pc = "exhausted"

\* Domain d has a record that was never issued: it has no renewalDate.
NeverIssued(d) == d \in DOMAIN store /\ ~ Has(store[d], "renewalDate")

\* This step starts an attempt for domain d: a call of
\* performHttpChallengeWithRetry by the trigger or of performHttpChallenge by
\* the renewal scan.
StartsAttempt(d) ==
  \E t \in 1..Len(tasks') : t > Len(tasks) /\ tasks'[t].domain = d

\* C21: once performHttpChallengeWithRetry has failed all six attempts for a
\* domain whose record has no renewalDate, the record keeps inProgress = true
\* and neither the change-feed trigger nor the renewal scan starts another
\* attempt for that domain.
C21_ExhaustedIsStuck ==
  [][\A d \in Domains :
       (Exhausted(d) /\ NeverIssued(d))
         => /\ d \in DOMAIN store'
            /\ TruthyFlag(store'[d], "inProgress")
            /\ ~ StartsAttempt(d)]_vars

====
